---------------------------- MODULE Spec2Model ----------------------------
(***************************************************************************)
(* XXHashVerify: the generate and check flows of src/main.rs and the hash  *)
(* and manifest functions of src/lib.rs.                                   *)
(*                                                                         *)
(* Text (paths, manifest lines, hex tokens) is a sequence of one-character *)
(* strings.  A file of the manifest is a sequence of lines.  Units are the *)
(* tasks of tokio::spawn; they run on several worker threads, so they      *)
(* interleave at every statement, and the main thread runs beside them.    *)
(***************************************************************************)
EXTENDS Integers, Sequences, FiniteSets, TLC

(***************************************************************************)
(* Bounds of the model.                                                    *)
(***************************************************************************)
\* files of a tree in the scheduling specification Spec
MaxFiles == 3
\* the largest token pool (Semaphore::new(16) in the program)
MaxPermits == 2
\* capacity of the result channel (bounded(64) in the program)
ChanCap == 1
\* width of a digest in bits (u128 in the program)
DigestBits == 8
\* bytes one read returns at most (the 32768-byte buffer in the program)
BufLen == 2
\* files of a tree, and lines of a manifest, in the text specification SpecText
TextFiles == 2
\* bytes of a file in the hash specification SpecHash
MaxBytes == 3

(***************************************************************************)
(* Text helpers.                                                           *)
(***************************************************************************)
Range(s) == {s[i] : i \in 1..Len(s)}

\* the sequences over S of length at most n
SeqsUpTo(S, n) == UNION {[1..k -> S] : k \in 0..n}

\* is p a prefix of s
StartsWith(s, p) == Len(p) <= Len(s) /\ SubSeq(s, 1, Len(p)) = p

Drop(s, n) == SubSeq(s, n + 1, Len(s))

(***************************************************************************)
(* Hash Engine: compute_hash reads the file in chunks of at most BufLen    *)
(* bytes and feeds each to the incremental hasher.  Xxh3 is a library; the *)
(* model's hasher is a polynomial fold of the bytes, reduced to the        *)
(* digest's width.                                                         *)
(***************************************************************************)
DigestMax == 2 ^ DigestBits - 1

Xxh3New == 7

RECURSIVE Xxh3Update(_, _)
Xxh3Update(st, chunk) ==
    IF chunk = <<>> THEN st
    ELSE Xxh3Update((st * 31 + Head(chunk) + 1) % (DigestMax + 1), Tail(chunk))

Xxh3Digest128(st) == st

\* reader.read(&mut buf): the bytes one read returns, at most BufLen of them
ReadChunk(data, pos) == SubSeq(data, pos + 1, IF pos + BufLen < Len(data) THEN pos + BufLen ELSE Len(data))

\* the loop of compute_hash from position pos with hasher state st
RECURSIVE HashLoop(_, _, _)
HashLoop(data, pos, st) ==
    LET chunk == ReadChunk(data, pos)
    IN  IF Len(chunk) = 0 THEN st
        ELSE HashLoop(data, pos + Len(chunk), Xxh3Update(st, chunk))

\* compute_hash on a file that opens and reads without error
HashOf(data) == Xxh3Digest128(HashLoop(data, 0, Xxh3New))

(***************************************************************************)
(* Manifest Codec, encoding: export_all_hash.                              *)
(***************************************************************************)
HexDigits == <<"0", "1", "2", "3", "4", "5", "6", "7", "8", "9", "a", "b", "c", "d", "e", "f">>

\* format!("{:x}", hash): lowercase, no padding, "0" for zero
RECURSIVE LowerHex(_)
LowerHex(n) ==
    IF n < 16 THEN <<HexDigits[n + 1]>>
    ELSE LowerHex(n \div 16) \o <<HexDigits[(n % 16) + 1]>>

\* the tree root, args.folder_path
FolderPath == <<"r">>

\* PathBuf::push: an absolute argument replaces the path, a relative one is
\* appended after a separator
PathPush(base, p) ==
    IF p # <<>> /\ Head(p) = "/" THEN p
    ELSE IF base # <<>> /\ base[Len(base)] = "/" THEN base \o p
    ELSE base \o <<"/">> \o p

\* file_path.strip_prefix(folder_path).unwrap(), of a path under the root
StripPrefix(path) == Drop(path, Len(FolderPath) + 1)

Separator == <<" ", "|", " ">>

\* writeln!(file, "[{} | {:x}]", relative path, hash)
ManifestLine(path, hash) ==
    <<"[">> \o StripPrefix(path) \o Separator \o LowerHex(hash) \o <<"]">>

\* ExportLoop as a bug would have it: nothing is written when a digest is
\* missing
RECURSIVE ExportLoopNoPartial(_, _, _, _)
ExportLoopNoPartial(hashes, file_paths, i, out) ==
    IF i > Len(file_paths) THEN [ok |-> TRUE, lines |-> out]
    ELSE IF file_paths[i] \notin DOMAIN hashes THEN [ok |-> FALSE, lines |-> <<>>]
    ELSE ExportLoopNoPartial(hashes, file_paths, i + 1,
                             Append(out, ManifestLine(file_paths[i], hashes[file_paths[i]])))

\* the loop of export_all_hash over file_paths from index i, written so far
\* in out: [ok, lines]
RECURSIVE ExportLoop(_, _, _, _)
ExportLoop(hashes, file_paths, i, out) ==
    IF i > Len(file_paths) THEN [ok |-> TRUE, lines |-> out]
    ELSE IF file_paths[i] \notin DOMAIN hashes THEN [ok |-> FALSE, lines |-> out]
    ELSE ExportLoop(hashes, file_paths, i + 1,
                    Append(out, ManifestLine(file_paths[i], hashes[file_paths[i]])))

\* the lines in the order of the map's keys rather than of file_paths, for
\* a map that yields its keys last to first
Reverse(q) == [i \in 1..Len(q) |-> q[Len(q) + 1 - i]]

\* export_all_hash as a bug would have it: the lines in the map's order
ExportInMapOrder(hashes, file_paths) == ExportLoop(hashes, Reverse(file_paths), 1, <<>>)

\* export_all_hash: the file is created or truncated, then written line by line
export_all_hash(hashes, file_paths) == ExportLoop(hashes, file_paths, 1, <<>>)

(***************************************************************************)
(* Manifest Codec, decoding: read_hash_file.                               *)
(***************************************************************************)
TrimChars == {"[", "]", " "}

RECURSIVE TrimStart(_)
TrimStart(s) ==
    IF s # <<>> /\ Head(s) \in TrimChars THEN TrimStart(Tail(s)) ELSE s

RECURSIVE TrimEnd(_)
TrimEnd(s) ==
    IF s # <<>> /\ s[Len(s)] \in TrimChars THEN TrimEnd(SubSeq(s, 1, Len(s) - 1)) ELSE s

\* line.trim_matches(|c| c == '[' || c == ']' || c == ' ')
TrimMatches(s) == TrimEnd(TrimStart(s))

\* str::split(" | "): the pieces between the matches, found left to right;
\* cur is the piece being read
RECURSIVE SplitLoop(_, _)
SplitLoop(s, cur) ==
    IF s = <<>> THEN <<cur>>
    ELSE IF StartsWith(s, Separator) THEN <<cur>> \o SplitLoop(Drop(s, Len(Separator)), <<>>)
    ELSE SplitLoop(Tail(s), Append(cur, Head(s)))

Split(s) == SplitLoop(s, <<>>)

HexValue(c) ==
    CASE c = "0" -> 0 [] c = "1" -> 1 [] c = "2" -> 2 [] c = "3" -> 3
      [] c = "4" -> 4 [] c = "5" -> 5 [] c = "6" -> 6 [] c = "7" -> 7
      [] c = "8" -> 8 [] c = "9" -> 9
      [] c \in {"a", "A"} -> 10 [] c \in {"b", "B"} -> 11
      [] c \in {"c", "C"} -> 12 [] c \in {"d", "D"} -> 13
      [] c \in {"e", "E"} -> 14 [] c \in {"f", "F"} -> 15
      [] OTHER -> -1

\* the digit loop of from_str_radix: -1 for an invalid digit or an overflow
RECURSIVE RadixLoop(_, _)
RadixLoop(s, acc) ==
    IF s = <<>> THEN acc
    ELSE IF HexValue(Head(s)) < 0 THEN -1
    ELSE IF acc * 16 + HexValue(Head(s)) > DigestMax THEN -1
    ELSE RadixLoop(Tail(s), acc * 16 + HexValue(Head(s)))

\* u128::from_str_radix(s, 16): an optional "+", then at least one digit;
\* -1 stands for Err
FromStrRadix16(s) ==
    LET digits == IF s # <<>> /\ Head(s) = "+" THEN Tail(s) ELSE s
    IN  IF digits = <<>> THEN -1 ELSE RadixLoop(digits, 0)

\* MapInsert as a bug would have it: an entry already there is kept
MapInsertKeepFirst(m, k, v) == [x \in DOMAIN m \cup {k} |-> IF x \in DOMAIN m THEN m[x] ELSE v]

\* HashMap::insert
MapInsert(m, k, v) == [x \in DOMAIN m \cup {k} |-> IF x = k THEN v ELSE m[x]]

EmptyMap == [x \in {} |-> 0]

\* ReadLoop as a bug would have it: a line whose second field does not parse
\* is skipped like a line without two fields
RECURSIVE ReadLoopSkipBad(_, _, _)
ReadLoopSkipBad(lines, i, m) ==
    IF i > Len(lines) THEN [ok |-> TRUE, map |-> m, token |-> <<>>]
    ELSE LET parts == Split(TrimMatches(lines[i]))
         IN  IF Len(parts) = 2 /\ FromStrRadix16(parts[2]) >= 0
             THEN ReadLoopSkipBad(lines, i + 1,
                                  MapInsert(m, PathPush(FolderPath, parts[1]), FromStrRadix16(parts[2])))
             ELSE ReadLoopSkipBad(lines, i + 1, m)

\* ReadLoop as a bug would have it: a line without two fields is an error
RECURSIVE ReadLoopStrict(_, _, _)
ReadLoopStrict(lines, i, m) ==
    IF i > Len(lines) THEN [ok |-> TRUE, map |-> m, token |-> <<>>]
    ELSE LET parts == Split(TrimMatches(lines[i]))
         IN  IF Len(parts) = 2 /\ FromStrRadix16(parts[2]) >= 0
             THEN ReadLoopStrict(lines, i + 1,
                                 MapInsert(m, PathPush(FolderPath, parts[1]), FromStrRadix16(parts[2])))
             ELSE [ok |-> FALSE, map |-> EmptyMap, token |-> lines[i]]

\* the loop of read_hash_file over the lines from index i with the map m:
\* [ok, map, token], token the text of the error
RECURSIVE ReadLoop(_, _, _)
ReadLoop(lines, i, m) ==
    IF i > Len(lines) THEN [ok |-> TRUE, map |-> m, token |-> <<>>]
    ELSE LET parts == Split(TrimMatches(lines[i]))
         IN  IF Len(parts) = 2
             THEN IF FromStrRadix16(parts[2]) < 0
                  THEN [ok |-> FALSE, map |-> EmptyMap, token |-> parts[2]]
                  ELSE ReadLoop(lines, i + 1,
                                MapInsert(m, PathPush(FolderPath, parts[1]), FromStrRadix16(parts[2])))
             ELSE ReadLoop(lines, i + 1, m)

\* read_hash_file of a manifest file that opens
read_hash_file(lines) == ReadLoop(lines, 1, EmptyMap)

(***************************************************************************)
(* The state of a run.                                                     *)
(***************************************************************************)
VARIABLES
    mode,        \* args.model: "generate" or "check"
    listing,     \* what get_all_file_path returns for the tree, in its order
    disk,        \* the files a unit finds when it opens them: path -> [kind, data]
    manifest,    \* the file at args.hash_file_path: [exists, lines]
    poolSize,    \* the size of the token pool, Semaphore::new
    permits,     \* the tokens the semaphore holds
    main,        \* where the main thread is
    file_paths,  \* main's file_paths (generate)
    hash_map,    \* model_check's hash_map (check)
    pending,     \* the entries of hash_map the for loop has not reached
    units,       \* the spawned tasks by path, each [hash, pc, res, out, code, pos, st, reads]
    handles,     \* handles.len(): the handles model_generate or model_check pushed
    chan,        \* the pairs in the result channel
    hash_cache,  \* main's hash_cache (generate)
    taken,       \* the pairs rx.iter().take(..) has yielded
    first_recv,  \* history: the path of the first pair it yielded, <<>> before
    status,      \* the exit status of the process, Running until it ends
    stderr,      \* what the process wrote to standard error before it ended
    run          \* 1: the first run; 2: a check run after the generate run

vars == <<mode, listing, disk, manifest, poolSize, permits, main, file_paths,
          hash_map, pending, units, handles, chan, hash_cache, taken, first_recv,
          status, stderr, run>>

\* no file at the manifest path
NoFile == [exists |-> FALSE, lines |-> <<>>]

FileOf(lines) == [exists |-> TRUE, lines |-> lines]

\* status while the process runs; <<code>> once it has ended
Running == <<>>

Ended(code) == <<code>>

NoRes == [kind |-> "none", hash |-> 0]

\* a file of the disk as a unit finds it: readable with its bytes, or failing
\* with an I/O error other than NotFound; a path outside DOMAIN disk is NotFound
Readable(data) == [kind |-> "ok", data |-> data]

Unreadable == [kind |-> "ioerr", data |-> <<>>]

(***************************************************************************)
(* The units: the tasks of model_generate and model_check.                 *)
(***************************************************************************)
\* a task as tokio::spawn leaves it, hash the recorded digest of a check run
NewUnit(hash) ==
    [hash |-> hash, pc |-> "wait", res |-> NoRes, out |-> <<>>, code |-> 0,
     pos |-> 0, st |-> Xxh3New, reads |-> 0]

\* tokio::spawn of the task of a path
SpawnUnit(us, path, hash) == [x \in DOMAIN us \cup {path} |-> IF x = path THEN NewUnit(hash) ELSE us[x]]

UnitIds == DOMAIN units

\* the units that hold a token: exit never returns, so the unit that called
\* it never dropped its permit
Admitted ==
    {u \in UnitIds : units[u].pc \in {"admitted", "open", "hashed", "sending", "sent",
                                      "reported", "exiting", "exited"}}

\* the units that hold an open file handle
Hashing == {u \in UnitIds : units[u].pc = "open"}

\* Acquire as a bug would have it: the task goes on without waiting for a
\* token
AcquireNoWait(u) ==
    /\ status = Running
    /\ units[u].pc = "wait"
    /\ permits' = permits - 1
    /\ units' = [units EXCEPT ![u].pc = "admitted"]
    /\ UNCHANGED <<mode, listing, disk, manifest, poolSize, main, file_paths, hash_map,
                   pending, handles, chan, hash_cache, taken, first_recv, status, stderr,
                   run>>

\* request_task_permit: task_semaphore.acquire().await.  The semaphore is
\* never closed, so acquire is never Err.
Acquire(u) ==
    /\ status = Running
    /\ units[u].pc = "wait"
    /\ permits > 0
    /\ permits' = permits - 1
    /\ units' = [units EXCEPT ![u].pc = "admitted"]
    /\ UNCHANGED <<mode, listing, disk, manifest, poolSize, main, file_paths, hash_map,
                   pending, handles, chan, hash_cache, taken, first_recv, status,
                   stderr, run>>

\* compute_hash, tokio::fs::File::open(file_path).await?
Open(u) ==
    /\ status = Running
    /\ units[u].pc = "admitted"
    /\ \/ /\ u \notin DOMAIN disk
          /\ units' = [units EXCEPT ![u].pc = "hashed", ![u].res = [kind |-> "notfound", hash |-> 0]]
       \/ /\ u \in DOMAIN disk
          /\ disk[u].kind = "ioerr"
          /\ units' = [units EXCEPT ![u].pc = "hashed", ![u].res = [kind |-> "ioerr", hash |-> 0]]
       \/ /\ u \in DOMAIN disk
          /\ units' = [units EXCEPT ![u].pc = "open"]
    /\ UNCHANGED <<mode, listing, disk, manifest, poolSize, permits, main, file_paths,
                   hash_map, pending, handles, chan, hash_cache, taken, first_recv,
                   status, stderr, run>>

\* compute_hash, the read loop and digest128: the file is read to its end, or
\* a read fails; the handle is closed either way
ReadToEnd(u) ==
    /\ status = Running
    /\ units[u].pc = "open"
    /\ units' = [units EXCEPT
                   ![u].pc = "hashed",
                   ![u].res = IF disk[u].kind = "ok"
                              THEN [kind |-> "ok", hash |-> HashOf(disk[u].data)]
                              ELSE [kind |-> "ioerr", hash |-> 0]]
    /\ UNCHANGED <<mode, listing, disk, manifest, poolSize, permits, main, file_paths,
                   hash_map, pending, handles, chan, hash_cache, taken, first_recv,
                   status, stderr, run>>

\* ReadSome as a bug would have it: xxh3.update(&buf), the whole buffer
\* whatever the read returned, the buffer's tail still zero
ReadSomeWholeBuffer(u) ==
    /\ status = Running
    /\ units[u].pc = "open"
    /\ disk[u].kind = "ok"
    /\ units[u].pos < Len(disk[u].data)
    /\ \E n \in 1..BufLen :
          /\ units[u].pos + n <= Len(disk[u].data)
          /\ units' = [units EXCEPT
                         ![u].st = Xxh3Update(@, SubSeq(disk[u].data, units[u].pos + 1, units[u].pos + n)
                                                 \o [j \in 1..(BufLen - n) |-> 0]),
                         ![u].pos = @ + n,
                         ![u].reads = @ + 1]
    /\ UNCHANGED <<mode, listing, disk, manifest, poolSize, permits, main, file_paths,
                   hash_map, pending, handles, chan, hash_cache, taken, first_recv,
                   status, stderr, run>>

\* compute_hash, one turn of the loop in which reader.read returns n > 0
\* bytes, any number from one to the buffer's length and the bytes left:
\* xxh3.update(&buf[..n])
ReadSome(u) ==
    /\ status = Running
    /\ units[u].pc = "open"
    /\ disk[u].kind = "ok"
    /\ units[u].pos < Len(disk[u].data)
    /\ \E n \in 1..BufLen :
          /\ units[u].pos + n <= Len(disk[u].data)
          /\ units' = [units EXCEPT
                         ![u].st = Xxh3Update(@, SubSeq(disk[u].data, units[u].pos + 1, units[u].pos + n)),
                         ![u].pos = @ + n,
                         ![u].reads = @ + 1]
    /\ UNCHANGED <<mode, listing, disk, manifest, poolSize, permits, main, file_paths,
                   hash_map, pending, handles, chan, hash_cache, taken, first_recv,
                   status, stderr, run>>

\* compute_hash, the turn in which reader.read returns 0: break, digest128
ReadEnd(u) ==
    /\ status = Running
    /\ units[u].pc = "open"
    /\ disk[u].kind = "ok"
    /\ units[u].pos = Len(disk[u].data)
    /\ units' = [units EXCEPT
                   ![u].pc = "hashed",
                   ![u].res = [kind |-> "ok", hash |-> Xxh3Digest128(units[u].st)]]
    /\ UNCHANGED <<mode, listing, disk, manifest, poolSize, permits, main, file_paths,
                   hash_map, pending, handles, chan, hash_cache, taken, first_recv,
                   status, stderr, run>>

\* compute_hash, a turn in which reader.read returns Err
ReadFail(u) ==
    /\ status = Running
    /\ units[u].pc = "open"
    /\ disk[u].kind = "ioerr"
    /\ units' = [units EXCEPT ![u].pc = "hashed", ![u].res = [kind |-> "ioerr", hash |-> 0]]
    /\ UNCHANGED <<mode, listing, disk, manifest, poolSize, permits, main, file_paths,
                   hash_map, pending, handles, chan, hash_cache, taken, first_recv,
                   status, stderr, run>>

\* GenPrint as a bug would have it: the token is given back before the send
GenPrintDropsPermit(u) ==
    /\ status = Running
    /\ mode = "generate"
    /\ units[u].pc = "hashed"
    /\ units[u].res.kind = "ok"
    /\ permits' = permits + 1
    /\ units' = [units EXCEPT ![u].pc = "sending", ![u].out = Append(@, "hash")]
    /\ UNCHANGED <<mode, listing, disk, manifest, poolSize, main, file_paths,
                   hash_map, pending, handles, chan, hash_cache, taken, first_recv,
                   status, stderr, run>>

\* model_generate, Ok(hash): println!
GenPrint(u) ==
    /\ status = Running
    /\ mode = "generate"
    /\ units[u].pc = "hashed"
    /\ units[u].res.kind = "ok"
    /\ units' = [units EXCEPT ![u].pc = "sending", ![u].out = Append(@, "hash")]
    /\ UNCHANGED <<mode, listing, disk, manifest, poolSize, permits, main, file_paths,
                   hash_map, pending, handles, chan, hash_cache, taken, first_recv,
                   status, stderr, run>>

\* Send as a bug would have it: an unbounded channel
SendUnbounded(u) ==
    /\ status = Running
    /\ units[u].pc = "sending"
    /\ chan' = Append(chan, <<u, units[u].res.hash>>)
    /\ units' = [units EXCEPT ![u].pc = "sent"]
    /\ UNCHANGED <<mode, listing, disk, manifest, poolSize, permits, main, file_paths,
                   hash_map, pending, handles, hash_cache, taken, first_recv, status,
                   stderr, run>>

\* model_generate, tx.send((file_path, hash)): blocks while the channel is
\* full.  The receiver lives until main ends, so the send never fails.
Send(u) ==
    /\ status = Running
    /\ units[u].pc = "sending"
    /\ Len(chan) < ChanCap
    /\ chan' = Append(chan, <<u, units[u].res.hash>>)
    /\ units' = [units EXCEPT ![u].pc = "sent"]
    /\ UNCHANGED <<mode, listing, disk, manifest, poolSize, permits, main, file_paths,
                   hash_map, pending, handles, hash_cache, taken, first_recv, status,
                   stderr, run>>

\* GenFail as a bug would have it: the unit of a failed hash goes on to the
\* send, with the digest of no file
GenFailSends(u) ==
    /\ status = Running
    /\ mode = "generate"
    /\ units[u].pc = "hashed"
    /\ units[u].res.kind # "ok"
    /\ units' = [units EXCEPT ![u].pc = "sending"]
    /\ stderr' = Append(stderr, <<"hash">>)
    /\ UNCHANGED <<mode, listing, disk, manifest, poolSize, permits, main, file_paths,
                   hash_map, pending, handles, chan, hash_cache, taken, first_recv,
                   status, run>>

\* model_generate, Err(err): eprintln!, then exit(1) follows
GenFail(u) ==
    /\ status = Running
    /\ mode = "generate"
    /\ units[u].pc = "hashed"
    /\ units[u].res.kind # "ok"
    /\ units' = [units EXCEPT ![u].pc = "exiting", ![u].code = 1]
    /\ stderr' = Append(stderr, <<"hash">>)
    /\ UNCHANGED <<mode, listing, disk, manifest, poolSize, permits, main, file_paths,
                   hash_map, pending, handles, chan, hash_cache, taken, first_recv,
                   status, run>>

\* Classify as a bug would have it: NotFound is not told from the other
\* errors
ClassifyNoMissing(res, recorded) ==
    IF res.kind = "ok"
    THEN IF recorded = res.hash THEN "Success" ELSE "Mismatch"
    ELSE "IOFailure"

\* the match of the verification unit, model_check
Classify(res, recorded) ==
    IF res.kind = "ok"
    THEN IF recorded = res.hash THEN "Success" ELSE "Mismatch"
    ELSE IF res.kind = "notfound" THEN "Missing" ELSE "IOFailure"

\* ExitCodeOf as a bug would have it: every failed verification exits 1
ExitCodeNonZero(outcome) == 1

\* the argument of exit after an outcome that is not Success
ExitCodeOf(outcome) == IF outcome = "IOFailure" THEN 1 ELSE 0

\* Report as a bug would have it: exit only after an I/O failure, a
\* Mismatch or Missing unit ends like a Success one
ReportAndGoOn(u) ==
    /\ status = Running
    /\ mode = "check"
    /\ units[u].pc = "hashed"
    /\ LET outcome == Classify(units[u].res, units[u].hash)
       IN  units' = [units EXCEPT
                       ![u].out = Append(@, outcome),
                       ![u].pc = IF outcome = "IOFailure" THEN "exiting" ELSE "reported",
                       ![u].code = ExitCodeOf(outcome)]
    /\ UNCHANGED <<mode, listing, disk, manifest, poolSize, permits, main, file_paths,
                   hash_map, pending, handles, chan, hash_cache, taken, first_recv, status,
                   stderr, run>>

\* model_check: println! of the outcome; exit follows all but Success
Report(u) ==
    /\ status = Running
    /\ mode = "check"
    /\ units[u].pc = "hashed"
    /\ LET outcome == Classify(units[u].res, units[u].hash)
       IN  units' = [units EXCEPT
                       ![u].out = Append(@, outcome),
                       ![u].pc = IF outcome = "Success" THEN "reported" ELSE "exiting",
                       ![u].code = ExitCodeOf(outcome)]
    /\ UNCHANGED <<mode, listing, disk, manifest, poolSize, permits, main, file_paths,
                   hash_map, pending, handles, chan, hash_cache, taken, first_recv,
                   status, stderr, run>>

\* Release as a bug would have it: the token is given back twice
ReleaseTwice(u) ==
    /\ status = Running
    /\ units[u].pc \in {"sent", "reported"}
    /\ permits' = permits + 2
    /\ units' = [units EXCEPT ![u].pc = "done"]
    /\ UNCHANGED <<mode, listing, disk, manifest, poolSize, main, file_paths, hash_map,
                   pending, handles, chan, hash_cache, taken, first_recv, status,
                   stderr, run>>

\* drop(permit) and the end of the task
Release(u) ==
    /\ status = Running
    /\ units[u].pc \in {"sent", "reported"}
    /\ permits' = permits + 1
    /\ units' = [units EXCEPT ![u].pc = "done"]
    /\ UNCHANGED <<mode, listing, disk, manifest, poolSize, main, file_paths, hash_map,
                   pending, handles, chan, hash_cache, taken, first_recv, status,
                   stderr, run>>

\* exit(code) in a unit: the process ends, whatever the other threads do
Exit(u) ==
    /\ status = Running
    /\ units[u].pc = "exiting"
    /\ status' = Ended(units[u].code)
    /\ units' = [units EXCEPT ![u].pc = "exited"]
    /\ UNCHANGED <<mode, listing, disk, manifest, poolSize, permits, main, file_paths,
                   hash_map, pending, handles, chan, hash_cache, taken, first_recv,
                   stderr, run>>

(***************************************************************************)
(* The main thread.                                                        *)
(***************************************************************************)
\* main, Model::Generate: get_all_file_path, then model_generate begins
StartGenerate ==
    /\ status = Running
    /\ mode = "generate"
    /\ main = "start"
    /\ file_paths' = listing
    /\ main' = "spawn"
    /\ UNCHANGED <<mode, listing, disk, manifest, poolSize, permits, hash_map, pending,
                   units, handles, chan, hash_cache, taken, first_recv, status, stderr,
                   run>>

\* SpawnGenerate as a bug would have it: a task is spawned only when a token
\* is free
SpawnGenerateLimited ==
    /\ status = Running
    /\ mode = "generate"
    /\ main = "spawn"
    /\ handles < Len(file_paths)
    /\ permits > 0
    /\ units' = SpawnUnit(units, file_paths[handles + 1], 0)
    /\ handles' = handles + 1
    /\ UNCHANGED <<mode, listing, disk, manifest, poolSize, permits, main, file_paths,
                   hash_map, pending, chan, hash_cache, taken, first_recv, status,
                   stderr, run>>

\* model_generate, one turn of the for loop: tokio::spawn, handles.push
SpawnGenerate ==
    /\ status = Running
    /\ mode = "generate"
    /\ main = "spawn"
    /\ handles < Len(file_paths)
    /\ units' = SpawnUnit(units, file_paths[handles + 1], 0)
    /\ handles' = handles + 1
    /\ UNCHANGED <<mode, listing, disk, manifest, poolSize, permits, main, file_paths,
                   hash_map, pending, chan, hash_cache, taken, first_recv, status,
                   stderr, run>>

\* model_generate returns (rx, handles)
SpawnedGenerate ==
    /\ status = Running
    /\ mode = "generate"
    /\ main = "spawn"
    /\ handles = Len(file_paths)
    /\ main' = "collect"
    /\ UNCHANGED <<mode, listing, disk, manifest, poolSize, permits, file_paths,
                   hash_map, pending, units, handles, chan, hash_cache, taken,
                   first_recv, status, stderr, run>>

\* Receive as a bug would have it: the cache keeps the last pair only
ReceiveKeepsLast ==
    /\ status = Running
    /\ main = "collect"
    /\ taken < handles
    /\ chan # <<>>
    /\ hash_cache' = MapInsert(EmptyMap, Head(chan)[1], Head(chan)[2])
    /\ chan' = Tail(chan)
    /\ taken' = taken + 1
    /\ first_recv' = IF taken = 0 THEN Head(chan)[1] ELSE first_recv
    /\ UNCHANGED <<mode, listing, disk, manifest, poolSize, permits, main, file_paths,
                   hash_map, pending, units, handles, status, stderr, run>>

\* main, one turn of for (file_path, hash) in rx.iter().take(handles.len())
Receive ==
    /\ status = Running
    /\ main = "collect"
    /\ taken < handles
    /\ chan # <<>>
    /\ hash_cache' = MapInsert(hash_cache, Head(chan)[1], Head(chan)[2])
    /\ chan' = Tail(chan)
    /\ taken' = taken + 1
    /\ first_recv' = IF taken = 0 THEN Head(chan)[1] ELSE first_recv
    /\ UNCHANGED <<mode, listing, disk, manifest, poolSize, permits, main, file_paths,
                   hash_map, pending, units, handles, status, stderr, run>>

\* Collected as a bug would have it: take(handles.len() + 1)
CollectedOneMore ==
    /\ status = Running
    /\ main = "collect"
    /\ taken = handles + 1
    /\ main' = "await"
    /\ UNCHANGED <<mode, listing, disk, manifest, poolSize, permits, file_paths, hash_map,
                   pending, units, handles, chan, hash_cache, taken, first_recv, status,
                   stderr, run>>

\* take(n) has yielded its n items: the for loop ends without another recv
Collected ==
    /\ status = Running
    /\ main = "collect"
    /\ taken = handles
    /\ main' = "await"
    /\ UNCHANGED <<mode, listing, disk, manifest, poolSize, permits, file_paths,
                   hash_map, pending, units, handles, chan, hash_cache, taken,
                   first_recv, status, stderr, run>>

\* await_all_async_tasks returns once every handle's task has ended.  No task
\* panics or is aborted, so handle.await is never Err.
AllJoined == \A u \in UnitIds : units[u].pc = "done"

\* Export as a bug would have it: the manifest is written once the pairs are
\* in, before the tasks are awaited
ExportBeforeJoin ==
    /\ status = Running
    /\ mode = "generate"
    /\ main = "await"
    /\ LET r == export_all_hash(hash_cache, file_paths)
       IN  /\ manifest' = FileOf(r.lines)
           /\ status' = IF r.ok THEN Ended(0) ELSE Ended(1)
           /\ stderr' = IF r.ok THEN stderr ELSE Append(stderr, <<"export">>)
    /\ main' = "returned"
    /\ UNCHANGED <<mode, listing, disk, poolSize, permits, file_paths, hash_map,
                   pending, units, handles, chan, hash_cache, taken, first_recv, run>>

\* main, export_all_hash without an I/O error on the manifest file: Ok, or
\* the error of a missing digest after the lines before it
Export ==
    /\ status = Running
    /\ mode = "generate"
    /\ main = "await"
    /\ AllJoined
    /\ LET r == export_all_hash(hash_cache, file_paths)
       IN  /\ manifest' = FileOf(r.lines)
           /\ status' = IF r.ok THEN Ended(0) ELSE Ended(1)
           /\ stderr' = IF r.ok THEN stderr ELSE Append(stderr, <<"export">>)
    /\ main' = "returned"
    /\ UNCHANGED <<mode, listing, disk, poolSize, permits, file_paths, hash_map,
                   pending, units, handles, chan, hash_cache, taken, first_recv, run>>

\* main, export_all_hash with an I/O error on the manifest file: the open
\* fails (opened = FALSE), or the write of line n + 1 fails
ExportIOError ==
    /\ status = Running
    /\ mode = "generate"
    /\ main = "await"
    /\ AllJoined
    /\ \E opened \in BOOLEAN, n \in 0..Len(file_paths) :
          LET r == export_all_hash(hash_cache, file_paths)
          IN  /\ opened => n < Len(r.lines)
              /\ ~opened => n = 0
              /\ manifest' = IF opened THEN FileOf(SubSeq(r.lines, 1, n)) ELSE manifest
    /\ status' = Ended(1)
    /\ stderr' = Append(stderr, <<"export">>)
    /\ main' = "returned"
    /\ UNCHANGED <<mode, listing, disk, poolSize, permits, file_paths, hash_map,
                   pending, units, handles, chan, hash_cache, taken, first_recv, run>>

\* model_check, read_hash_file: the map, or eprintln! and exit(1) on an
\* error (no manifest file, or a field that is no hexadecimal u128)
ReadManifest ==
    /\ status = Running
    /\ mode = "check"
    /\ main = "start"
    /\ LET r == read_hash_file(manifest.lines)
       IN  IF manifest.exists /\ r.ok
           THEN /\ hash_map' = r.map
                /\ pending' = DOMAIN r.map
                /\ main' = "spawn"
                /\ UNCHANGED <<status, stderr>>
           ELSE /\ status' = Ended(1)
                /\ stderr' = Append(stderr, IF manifest.exists THEN r.token ELSE <<"open">>)
                /\ main' = "returned"
                /\ UNCHANGED <<hash_map, pending>>
    /\ UNCHANGED <<mode, listing, disk, manifest, poolSize, permits, file_paths, units,
                   handles, chan, hash_cache, taken, first_recv, run>>

\* model_check, one turn of for (file_path, hash) in hash_map: the map's
\* order is unspecified
SpawnCheck ==
    /\ status = Running
    /\ mode = "check"
    /\ main = "spawn"
    /\ \E k \in pending :
          /\ units' = SpawnUnit(units, k, hash_map[k])
          /\ pending' = pending \ {k}
    /\ handles' = handles + 1
    /\ UNCHANGED <<mode, listing, disk, manifest, poolSize, permits, main, file_paths,
                   hash_map, chan, hash_cache, taken, first_recv, status, stderr, run>>

\* model_check returns handles
SpawnedCheck ==
    /\ status = Running
    /\ mode = "check"
    /\ main = "spawn"
    /\ pending = {}
    /\ main' = "await"
    /\ UNCHANGED <<mode, listing, disk, manifest, poolSize, permits, file_paths,
                   hash_map, pending, units, handles, chan, hash_cache, taken,
                   first_recv, status, stderr, run>>

\* main returns after await_all_async_tasks of a check run: status 0
ReturnCheck ==
    /\ status = Running
    /\ mode = "check"
    /\ main = "await"
    /\ AllJoined
    /\ main' = "returned"
    /\ status' = Ended(0)
    /\ UNCHANGED <<mode, listing, disk, manifest, poolSize, permits, file_paths,
                   hash_map, pending, units, handles, chan, hash_cache, taken,
                   first_recv, stderr, run>>

\* the operator runs check on the tree and the manifest a generate run left,
\* the tree unchanged: a new process
CheckAfterGenerate ==
    /\ run = 1
    /\ mode = "generate"
    /\ status = Ended(0)
    /\ run' = 2
    /\ mode' = "check"
    /\ status' = Running
    /\ main' = "start"
    /\ permits' = poolSize
    /\ file_paths' = <<>>
    /\ hash_map' = EmptyMap
    /\ pending' = {}
    /\ units' = EmptyMap
    /\ handles' = 0
    /\ chan' = <<>>
    /\ hash_cache' = EmptyMap
    /\ taken' = 0
    /\ first_recv' = <<>>
    /\ stderr' = <<>>
    /\ UNCHANGED <<listing, disk, manifest, poolSize>>

UnitStep(u) ==
    \/ Acquire(u)
    \/ Open(u)
    \/ ReadToEnd(u)
    \/ GenPrint(u)
    \/ Send(u)
    \/ GenFail(u)
    \/ Report(u)
    \/ Release(u)
    \/ Exit(u)

Next ==
    \/ StartGenerate
    \/ SpawnGenerate
    \/ SpawnedGenerate
    \/ Receive
    \/ Collected
    \/ Export
    \/ ExportIOError
    \/ ReadManifest
    \/ SpawnCheck
    \/ SpawnedCheck
    \/ ReturnCheck
    \/ CheckAfterGenerate
    \/ \E u \in UnitIds : UnitStep(u)

\* the steps of a unit with compute_hash read by read
UnitStepByRead(u) ==
    \/ Acquire(u)
    \/ Open(u)
    \/ ReadSome(u)
    \/ ReadEnd(u)
    \/ ReadFail(u)
    \/ GenPrint(u)
    \/ Send(u)
    \/ GenFail(u)
    \/ Report(u)
    \/ Release(u)
    \/ Exit(u)

\* the program with compute_hash read by read
NextByRead ==
    \/ StartGenerate
    \/ SpawnGenerate
    \/ SpawnedGenerate
    \/ Receive
    \/ Collected
    \/ Export
    \/ ExportIOError
    \/ ReadManifest
    \/ SpawnCheck
    \/ SpawnedCheck
    \/ ReturnCheck
    \/ CheckAfterGenerate
    \/ \E u \in UnitIds : UnitStepByRead(u)

(***************************************************************************)
(* The inputs of a run: the tree, the manifest file, the token pool.       *)
(***************************************************************************)
\* the bytes of the file at a path when the tree was made
DataOf(path) == [j \in 1..Len(StripPrefix(path)) |-> 1]

\* what a unit may find at a path: the file as it was made, the file with
\* other bytes, or a file that fails to read
Same(path) == Readable(DataOf(path))

Modified(path) == Readable(<<0>> \o DataOf(path))

\* the sequences without repetition over S of length at most n
Listings(S, n) == {s \in SeqsUpTo(S, n) : \A i, j \in 1..Len(s) : i # j => s[i] # s[j]}

\* the states a unit may find the file of a path in, once it exists: a
\* generate run hashes what is there, a check run may meet other bytes
StatesOf(m, q) == IF m = "generate" THEN {Same(q), Unreadable} ELSE {Same(q), Modified(q), Unreadable}

\* the disks of a run over a set of paths: each path a file in one of its
\* states, or no file
Disks(paths, m) ==
    UNION {{d \in [P -> UNION {StatesOf(m, q) : q \in P}] : \A q \in P : d[q] \in StatesOf(m, q)} : P \in SUBSET paths}

\* the start of a process
Start(m, l, d, mf, k) ==
    /\ mode = m
    /\ listing = l
    /\ disk = d
    /\ manifest = mf
    /\ poolSize = k
    /\ permits = k
    /\ main = "start"
    /\ file_paths = <<>>
    /\ hash_map = EmptyMap
    /\ pending = {}
    /\ units = EmptyMap
    /\ handles = 0
    /\ chan = <<>>
    /\ hash_cache = EmptyMap
    /\ taken = 0
    /\ first_recv = <<>>
    /\ status = Running
    /\ stderr = <<>>
    /\ run = 1

\* the tree of Spec: files a, aa, aaa, ... under the root
TreePath(i) == PathPush(FolderPath, [j \in 1..i |-> "a"])

TreeListing(n) == [i \in 1..n |-> TreePath(i)]

\* the manifest a generate run wrote for the listing when the tree was made
Recorded(l) == [i \in 1..Len(l) |-> ManifestLine(l[i], HashOf(DataOf(l[i])))]

\* a manifest file an earlier run left at the manifest path
StaleManifest == FileOf(<<ManifestLine(PathPush(FolderPath, <<"o">>), 0)>>)

\* a manifest line whose second field is no hexadecimal number
CorruptLine == <<"[", "a">> \o Separator \o <<"g", "]">>

Init ==
    \E n \in 0..MaxFiles, k \in 1..MaxPermits :
       \/ \E d \in Disks(Range(TreeListing(n)), "generate"), mf \in {NoFile, StaleManifest} :
             Start("generate", TreeListing(n), d, mf, k)
       \/ \E d \in Disks(Range(TreeListing(n)), "check") :
             Start("check", TreeListing(n), d, FileOf(Recorded(TreeListing(n))), k)
       \/ \E mf \in {NoFile, FileOf(Append(Recorded(TreeListing(n)), CorruptLine))} :
             Start("check", TreeListing(n), [q \in Range(TreeListing(n)) |-> Same(q)], mf, k)

Spec == Init /\ [][Next]_vars

\* generate runs on trees whose files all open and read
InitGenerate ==
    \E n \in 0..MaxFiles, k \in 1..MaxPermits :
       Start("generate", TreeListing(n), [q \in Range(TreeListing(n)) |-> Same(q)], NoFile, k)

\* those runs with the scheduling every run has: the runtime's worker threads
\* and the main thread keep running, so a step that can be taken is taken
FairGenerate == InitGenerate /\ [][Next]_vars /\ WF_vars(Next)

\* generate runs on trees whose files open and read, but for the last of the
\* listing, which may be gone or fail to read
InitHashFailure ==
    \E n \in 0..MaxFiles, k \in 1..MaxPermits :
       \E d \in {dd \in Disks(Range(TreeListing(n)), "generate") :
                    \A i \in 1..(n - 1) : TreePath(i) \in DOMAIN dd /\ dd[TreePath(i)] = Same(TreePath(i))} :
          Start("generate", TreeListing(n), d, NoFile, k)

FairHashFailure == InitHashFailure /\ [][Next]_vars /\ WF_vars(Next)

(***************************************************************************)
(* SpecHash: generate, then check, over two files of the same bytes, each  *)
(* read of compute_hash returning any number of bytes the buffer takes.    *)
(***************************************************************************)
HashBytes == {0, 1}

\* what the second file may be: the bytes of the first, unreadable, or gone
HashDisks(B) ==
    {[q \in {TreePath(1), TreePath(2)} |-> Readable(B)],
     [q \in {TreePath(1), TreePath(2)} |-> IF q = TreePath(1) THEN Readable(B) ELSE Unreadable],
     [q \in {TreePath(1)} |-> Readable(B)]}

InitHash ==
    \E B \in SeqsUpTo(HashBytes, MaxBytes), k \in 1..MaxPermits :
       \E d \in HashDisks(B) : Start("generate", TreeListing(2), d, NoFile, k)

SpecHash == InitHash /\ [][NextByRead]_vars

(***************************************************************************)
(* SpecExport: export_all_hash of the library called with any file list    *)
(* and any mapping, by a caller that ends 0 on Ok and 1 on Err as main     *)
(* does.                                                                   *)
(***************************************************************************)
\* the mappings from some of the paths to digests
Hashes(paths) == UNION {[P -> {0, DigestMax}] : P \in SUBSET paths}

\* the caller has its arguments: a list of distinct paths under the root and
\* a mapping
CallerArgs ==
    /\ status = Running
    /\ mode = "export"
    /\ main = "start"
    /\ file_paths' = listing
    /\ \E h \in Hashes(Range(TreeListing(MaxFiles))) : hash_cache' = h
    /\ main' = "await"
    /\ UNCHANGED <<mode, listing, disk, manifest, poolSize, permits, hash_map, pending,
                   units, handles, chan, taken, first_recv, status, stderr, run>>

\* export_all_hash without an I/O error on the manifest file
CallExport ==
    /\ status = Running
    /\ mode = "export"
    /\ main = "await"
    /\ LET r == export_all_hash(hash_cache, file_paths)
       IN  /\ manifest' = FileOf(r.lines)
           /\ status' = IF r.ok THEN Ended(0) ELSE Ended(1)
           /\ stderr' = IF r.ok THEN stderr ELSE Append(stderr, <<"export">>)
    /\ main' = "returned"
    /\ UNCHANGED <<mode, listing, disk, poolSize, permits, file_paths, hash_map,
                   pending, units, handles, chan, hash_cache, taken, first_recv, run>>

\* export_all_hash with an I/O error on the manifest file: the open fails
\* (opened = FALSE), or the write of line n + 1 fails
CallExportIOError ==
    /\ status = Running
    /\ mode = "export"
    /\ main = "await"
    /\ \E opened \in BOOLEAN, n \in 0..Len(file_paths) :
          LET r == export_all_hash(hash_cache, file_paths)
          IN  /\ opened => n < Len(r.lines)
              /\ ~opened => n = 0
              /\ manifest' = IF opened THEN FileOf(SubSeq(r.lines, 1, n)) ELSE manifest
    /\ status' = Ended(1)
    /\ stderr' = Append(stderr, <<"io">>)
    /\ main' = "returned"
    /\ UNCHANGED <<mode, listing, disk, poolSize, permits, file_paths, hash_map,
                   pending, units, handles, chan, hash_cache, taken, first_recv, run>>

NextExport ==
    \/ CallerArgs
    \/ CallExport
    \/ CallExportIOError

InitExport ==
    \E l \in Listings(Range(TreeListing(MaxFiles)), MaxFiles), mf \in {NoFile, StaleManifest} :
       Start("export", l, EmptyMap, mf, MaxPermits)

SpecExport == InitExport /\ [][NextExport]_vars

(***************************************************************************)
(* SpecText: the same program on trees whose file names hold the           *)
(* characters of the manifest format, and on manifest files of any text.   *)
(***************************************************************************)
\* file names: plain, beginning or ending with a character the decoder
\* trims, holding the separator
TextNames ==
    {<<"a">>, <<"f">>, <<"a", " ", "|", " ", "f">>}
    \cup {<<c, "a">> : c \in TrimChars} \cup {<<"a", c>> : c \in TrimChars}

TextPaths == {PathPush(FolderPath, name) : name \in TextNames}

\* the disk with every file of TextPaths as it was made
TextDisk == [q \in TextPaths |-> Same(q)]

\* second fields of a manifest line: digests of files, and texts that are no
\* hexadecimal number of the digest's width
TextTokens ==
    {LowerHex(HashOf(DataOf(PathPush(FolderPath, name)))) : name \in {<<"a">>, <<"a", "a">>}}
    \cup {<<>>, <<"g">>, <<"+">>, <<"+", "f">>, <<"F">>, LowerHex(DigestMax) \o <<"0">>}

\* lines of a manifest file: two fields, more, fewer, with and without the
\* brackets
TextLines ==
    {<<"[">> \o name \o Separator \o t \o <<"]">> : name \in {<<"a">>, <<"f">>}, t \in TextTokens}
    \cup {<<"a">> \o Separator \o <<"f">>, <<"[", "a", "]">>, <<>>,
          <<"[", "a">> \o Separator \o <<"f">> \o Separator \o <<"f", "]">>}

InitText ==
    \/ \E l \in Listings(TextPaths, TextFiles) :
          Start("generate", l, [q \in Range(l) |-> Same(q)], NoFile, MaxPermits)
    \/ \E lines \in SeqsUpTo(TextLines, TextFiles) :
          Start("check", <<>>, TextDisk, FileOf(lines), MaxPermits)
    \/ Start("check", <<>>, TextDisk, NoFile, MaxPermits)

SpecText == InitText /\ [][Next]_vars

(***************************************************************************)
(* Claims.                                                                 *)
(***************************************************************************)
\* the units that have been admitted and have not finished the hash
InFlight == {u \in UnitIds : units[u].pc \in {"admitted", "open"}}

\* C1: in generate and check runs, the units admitted and between opening
\* their file and finishing the hash never exceed the token pool; a unit
\* that has opened or read its file has taken a token, which the pool no
\* longer holds.
C1_TokenBound ==
    /\ Cardinality(InFlight) <= poolSize
    /\ Cardinality(Hashing) <= poolSize
    /\ permits >= 0
    /\ permits + Cardinality(Admitted) = poolSize
    /\ \A u \in UnitIds : units[u].pc = "wait" => units[u].res = NoRes

\* C1, witness: more files than tokens, every token taken by a unit with an
\* open file, another unit waiting
C1_Witness ==
    /\ poolSize = MaxPermits
    /\ Cardinality(Hashing) = poolSize
    /\ permits = 0
    /\ \E u \in UnitIds : units[u].pc = "wait"

\* the files of the listing all open and read
NoHashFailure == \A i \in 1..Len(listing) : listing[i] \in DOMAIN disk /\ disk[listing[i]].kind = "ok"

\* C2: in a generate run over N files none of which fails to hash, the
\* consumer receives exactly N pairs and then stops reading, and under fair
\* scheduling the run reaches the export step.
C2_ConsumerReadsN ==
    /\ [](mode = "generate" => taken <= Len(listing))
    /\ [](mode = "generate" /\ main \in {"await", "returned"}
            => taken = Len(listing) /\ chan = <<>> /\ Cardinality(DOMAIN hash_cache) = Len(listing))
    /\ [](mode = "generate" /\ NoHashFailure /\ status = Running => ENABLED Next)
    /\ (mode = "generate" /\ run = 1 /\ NoHashFailure) ~> (run = 2 \/ main = "returned")

\* C2, witness: a generate run with more files than channel capacity plus
\* tokens, export reached after the consumer read a pair for each
C2_Witness ==
    /\ mode = "generate"
    /\ Len(listing) > ChanCap + poolSize
    /\ main = "returned"
    /\ taken = Len(listing)
    /\ status = Ended(0)

\* C3: the channel never holds more than its capacity, and a producer whose
\* send finds it full stays in the send until a pair has been removed.
C3_Backpressure ==
    /\ [](Len(chan) <= ChanCap)
    /\ [][\A u \in UnitIds :
            units[u].pc = "sending" /\ Len(chan) = ChanCap /\ status' = Running
               => units'[u].pc = "sending"]_vars

\* C3, witness: the channel full and every token held by a unit in send
C3_Witness ==
    /\ Len(chan) = ChanCap
    /\ poolSize = MaxPermits
    /\ Cardinality({u \in UnitIds : units[u].pc = "sending"}) = poolSize

\* the line of the manifest for a file of the tree
LineOfFile(path) == ManifestLine(path, HashOf(disk[path].data))

\* C4: the manifest a successful generate run wrote has, as its i-th line,
\* the line of the i-th file of the discovery list, whatever the order in
\* which the pairs arrived.
C4_DiscoveryOrder ==
    mode = "generate" /\ status = Ended(0)
       => /\ manifest.exists
          /\ Len(manifest.lines) = Len(listing)
          /\ \A i \in 1..Len(listing) : manifest.lines[i] = LineOfFile(listing[i])

\* C4, witness: a manifest written after the pair of the last file arrived
\* first
C4_Witness ==
    /\ mode = "generate"
    /\ status = Ended(0)
    /\ Len(listing) = MaxFiles
    /\ first_recv = listing[Len(listing)]
    /\ manifest.lines[1] = LineOfFile(listing[1])

\* the entries export_all_hash is given: the tree's paths with their digests
RootJoined == [p \in Range(listing) |-> HashOf(disk[p].data)]

\* C5: export_all_hash followed by read_hash_file with the same root returns
\* the mapping from the root-joined paths of the entries to their digests,
\* whatever the characters of the paths.
C5_RoundTrip ==
    mode = "generate" /\ status = Ended(0)
       => /\ read_hash_file(manifest.lines).ok
          /\ read_hash_file(manifest.lines).map = RootJoined

\* what the disk makes of a recomputation, in the order of the claim
Expected(path, recorded) ==
    IF path \notin DOMAIN disk THEN "Missing"
    ELSE IF disk[path].kind # "ok" THEN "IOFailure"
    ELSE IF HashOf(disk[path].data) = recorded THEN "Success"
    ELSE "Mismatch"

\* C6: a verification unit reports Missing when the recomputation fails with
\* NotFound, IOFailure when it fails otherwise, Success when the digest
\* equals the recorded one, Mismatch when it differs; a unit reports exactly
\* one outcome, and Success only for equal digests.
C6_Classification ==
    mode = "check" =>
       \A u \in UnitIds :
          /\ Len(units[u].out) <= 1
          /\ Len(units[u].out) = 1 <=> units[u].pc \in {"reported", "done", "exiting", "exited"}
          /\ Len(units[u].out) = 1 =>
                /\ units[u].out[1] = Expected(u, hash_map[u])
                /\ units[u].out[1] = "Success" =>
                      /\ units[u].res.kind = "ok"
                      /\ units[u].res.hash = hash_map[u]
                      /\ HashOf(disk[u].data) = hash_map[u]

\* C6, witness: units that reported Success, Mismatch and Missing
C6_Witness ==
    /\ mode = "check"
    /\ \A o \in {"Success", "Mismatch", "Missing"} : \E u \in UnitIds : units[u].out = <<o>>

\* the units that reported an outcome other than Success
Failed == {u \in UnitIds : units[u].out # <<>> /\ units[u].out[1] # "Success"}

\* C7 as claimed: once a unit has observed Mismatch, Missing or IOFailure no
\* other unit is admitted, hashes or reports, and a check run reports at
\* most one outcome that is not Success.
C7_Original ==
    /\ [](mode = "check" => Cardinality(Failed) <= 1)
    /\ [][mode = "check" /\ Failed # {}
            => \A u \in UnitIds \ Failed : units'[u] = units[u]]_vars

\* C7 as amended: a unit that reported Mismatch, Missing or IOFailure does
\* nothing but exit, and its exit waits for no other unit; once it has
\* exited no unit is admitted, hashes or reports.  Until then the other
\* units go on, and a check run reports at most as many outcomes that are
\* not Success as there are tokens.
C7_FailFast ==
    /\ [](mode = "check" => Cardinality(Failed) <= poolSize)
    /\ [](mode = "check" => \A u \in Failed : units[u].pc \in {"exiting", "exited"})
    /\ [](\A u \in UnitIds : units[u].pc = "exiting" /\ status = Running => ENABLED Exit(u))
    /\ [](\A u \in UnitIds : units[u].pc = "exited" => status = Ended(units[u].code))
    /\ [][mode = "check" /\ status # Running => UNCHANGED vars]_vars

\* C7, witness: the process ended by the exit of one unit while another had
\* reported a failure too and a third was still waiting for a token
C7_Witness ==
    /\ mode = "check"
    /\ status # Running
    /\ Cardinality(Failed) = 2
    /\ \E u \in UnitIds : units[u].pc = "wait"

\* the units whose exit ended the process
Exited == {u \in UnitIds : units[u].pc = "exited"}

\* C8: a check run ends 0 when every entry is Success and when the outcome
\* that ended it is Mismatch or Missing, and non-zero when an IOFailure or a
\* manifest error ended it; a generate run ends 0 when the manifest was
\* exported and non-zero after a hash or export error.
C8_ExitStatus ==
    status # Running =>
       /\ Cardinality(Exited) <= 1
       /\ mode = "check" =>
             /\ ~manifest.exists \/ ~read_hash_file(manifest.lines).ok
                   => status = Ended(1) /\ units = EmptyMap
             /\ \A u \in Exited :
                   /\ units[u].out[1] \in {"Mismatch", "Missing"} => status = Ended(0)
                   /\ units[u].out[1] = "IOFailure" => status = Ended(1)
             /\ Exited = {} /\ manifest.exists /\ read_hash_file(manifest.lines).ok
                   => /\ status = Ended(0)
                      /\ DOMAIN units = DOMAIN hash_map
                      /\ \A u \in UnitIds : units[u].out = <<"Success">>
       /\ mode = "generate" =>
             /\ Exited # {} => status = Ended(1) /\ stderr # <<>>
             /\ stderr # <<>> => status = Ended(1)
             /\ Exited = {} /\ stderr = <<>>
                   => /\ status = Ended(0)
                      /\ manifest = FileOf([i \in 1..Len(listing) |-> LineOfFile(listing[i])])
             /\ ~NoHashFailure => status = Ended(1)

\* C8, witness: a check run ended with status 0 by a unit that reported
\* Mismatch
C8_Witness ==
    /\ mode = "check"
    /\ status = Ended(0)
    /\ \E u \in Exited : units[u].out = <<"Mismatch">>

\* a line of two fields whose second is no hexadecimal number of the
\* digest's width
BadField(line) ==
    /\ Len(Split(TrimMatches(line))) = 2
    /\ FromStrRadix16(Split(TrimMatches(line))[2]) < 0

\* the first such line of the manifest file
FirstBad == CHOOSE i \in 1..Len(manifest.lines) :
               /\ BadField(manifest.lines[i])
               /\ \A j \in 1..(i - 1) : ~BadField(manifest.lines[j])

\* C9: when a two-field line of the manifest has a second field that is no
\* hexadecimal u128, read_hash_file returns an error naming that field and
\* no mapping, and the check run ends non-zero with no unit created, no
\* token taken and no file hashed.
C9_ParseError ==
    /\ mode = "check"
    /\ run = 1
    /\ manifest.exists
    /\ \E i \in 1..Len(manifest.lines) : BadField(manifest.lines[i])
    => /\ ~read_hash_file(manifest.lines).ok
       /\ read_hash_file(manifest.lines).map = EmptyMap
       /\ read_hash_file(manifest.lines).token = Split(TrimMatches(manifest.lines[FirstBad]))[2]
       /\ units = EmptyMap
       /\ handles = 0
       /\ permits = poolSize
       /\ hash_map = EmptyMap
       /\ main # "start" => status = Ended(1) /\ stderr = <<read_hash_file(manifest.lines).token>>

\* C9, witness: a check run ended by the bad field of the second line of a
\* manifest whose first line is valid
C9_Witness ==
    /\ mode = "check"
    /\ status = Ended(1)
    /\ Len(manifest.lines) = 2
    /\ read_hash_file(<<manifest.lines[1]>>).ok
    /\ read_hash_file(<<manifest.lines[1]>>).map # EmptyMap
    /\ BadField(manifest.lines[2])
    /\ units = EmptyMap

\* C10: generate over a tree of N distinct files, then check on the
\* unchanged tree and the manifest: the manifest has N entries, the check
\* run reports Success once for each file and nothing else, every unit
\* finishes, and the run ends 0.
C10_EndToEnd ==
    run = 2 =>
       /\ Len(manifest.lines) = Len(listing)
       /\ Failed = {}
       /\ status # Running =>
             /\ status = Ended(0)
             /\ handles = Len(listing)
             /\ DOMAIN units = Range(listing)
             /\ \A u \in UnitIds : units[u].out = <<"Success">> /\ units[u].pc = "done"

\* the units of a generate run that have sent their pair
Sent == {u \in UnitIds : units[u].pc \in {"sent", "done"}}

\* the units whose hash failed, with NotFound or with another error
HashFailed == {u \in UnitIds : units[u].res.kind \in {"notfound", "ioerr"}}

\* C11: in generate a unit whose hash succeeded sends one pair, its path
\* with its digest, and never a second; a unit whose hash failed, NotFound
\* included, sends no pair, does nothing but report and exit, and once a
\* hash has failed the process comes to its end, with status 1.
C11_OnePairOrExit ==
    /\ [](mode = "generate" =>
            /\ Len(chan) + taken = Cardinality(Sent)
            /\ Cardinality(DOMAIN hash_cache) = taken
            /\ DOMAIN hash_cache \subseteq Sent
            /\ \A i \in 1..Len(chan) :
                  /\ chan[i][1] \in Sent \ DOMAIN hash_cache
                  /\ chan[i][2] = units[chan[i][1]].res.hash
                  /\ \A j \in 1..Len(chan) : i # j => chan[i][1] # chan[j][1]
            /\ \A u \in Sent : units[u].res.kind = "ok"
            /\ \A u \in HashFailed :
                  /\ units[u].pc \in {"hashed", "exiting", "exited"}
                  /\ status = Running => ENABLED (GenFail(u) \/ Exit(u))
            /\ status # Running /\ HashFailed # {} => status = Ended(1) /\ Exited # {})
    /\ [][mode = "generate" /\ mode' = "generate" =>
            \A u \in UnitIds :
               /\ u \in Sent => units'[u].pc \in {"sent", "done"}
               /\ u \in HashFailed => units'[u].res = units[u].res]_vars
    /\ (mode = "generate" /\ HashFailed # {}) ~> (status = Ended(1))

\* C11, witness: a generate run ended with status 1 by a unit whose file was
\* not found, after another unit had sent its pair and finished
C11_Witness ==
    /\ mode = "generate"
    /\ status = Ended(1)
    /\ \E u \in Exited : units[u].res.kind = "notfound"
    /\ \E u \in UnitIds : units[u].pc = "done"
    /\ Len(chan) + taken >= 1

\* C12 as claimed: a unit that has come to its end, its hash succeeded or
\* failed, has given its token back, so the tokens away from the pool are
\* with units that have not ended.
C12_Original == permits + Cardinality(Admitted \ Exited) = poolSize

\* C12 as amended: a unit finishes only after a hash that succeeded (in
\* check, with outcome Success) and gives its token back as it finishes,
\* once; no other step gives a token back; a unit whose outcome is a failure
\* never gives its token back, it ends the process holding it.  When every
\* unit of a run has finished the pool holds all its tokens again.
C12_ReleaseOnSuccess ==
    /\ [](permits <= poolSize /\ permits + Cardinality(Admitted) = poolSize)
    /\ [](\A u \in UnitIds :
             units[u].pc = "done" =>
                /\ units[u].res.kind = "ok"
                /\ mode = "check" => units[u].out = <<"Success">>)
    /\ [](main \in {"await", "returned"} /\ AllJoined => permits = poolSize)
    /\ [][run' = run =>
            /\ permits' <= permits + 1
            /\ \A u \in UnitIds :
                  /\ units[u].pc = "done" => units'[u] = units[u]
                  /\ units[u].pc # "done" /\ units'[u].pc = "done"
                        => u \in Admitted /\ permits' = permits + 1
                  /\ units[u].pc \in {"exiting", "exited"}
                        => units'[u].pc \in {"exiting", "exited"}
                  /\ units[u].pc # units'[u].pc /\ units'[u].pc \in {"exiting", "exited"}
                        => permits' = permits
            /\ permits' = permits + 1
                  => \E u \in Admitted : units[u].pc # "done" /\ units'[u].pc = "done"]_vars

\* C12, witness: a check run ended by a unit that reported Mismatch and kept
\* its token, after another unit had finished and given its token back
C12_Witness ==
    /\ mode = "check"
    /\ status = Ended(0)
    /\ \E u \in Exited : units[u].out = <<"Mismatch">> /\ u \in Admitted
    /\ \E u \in UnitIds : units[u].pc = "done"
    /\ permits = poolSize - 1

\* C13: a generate run leaves the manifest file as it found it until the
\* consumer has taken a pair for each file and every unit has finished, and
\* so in a run a failed hash ended; a check run never writes it, and has
\* decoded all of it, in the step that leaves the start, into the map it
\* keeps, before it creates a unit.
C13_ManifestWholesale ==
    /\ [][mode = "generate" /\ manifest' # manifest =>
            /\ main = "await" /\ main' = "returned"
            /\ handles = Len(listing)
            /\ taken = Len(listing)
            /\ chan = <<>>
            /\ \A u \in UnitIds : units[u].pc = "done"
            /\ DOMAIN units = Range(listing)]_vars
    /\ [](mode = "generate" /\ (main # "returned" \/ Exited # {})
            => manifest \in {NoFile, StaleManifest})
    /\ [][mode = "check" /\ mode' = "check" => manifest' = manifest]_vars
    /\ [][mode = "check" /\ main = "start" /\ main' = "spawn" =>
            /\ manifest.exists
            /\ read_hash_file(manifest.lines).ok
            /\ hash_map' = read_hash_file(manifest.lines).map
            /\ units' = EmptyMap]_vars
    /\ [][mode = "check" /\ main # "start" => hash_map' = hash_map]_vars
    /\ [](mode = "check" /\ (units # EmptyMap \/ main \in {"spawn", "await"}) =>
            /\ main # "start"
            /\ manifest.exists
            /\ DOMAIN units \subseteq DOMAIN hash_map)

\* C13, witness: a generate run that found a manifest file, took a pair, and
\* was ended by a failed hash, the file as it was
C13_Witness ==
    /\ mode = "generate"
    /\ status = Ended(1)
    /\ Exited # {}
    /\ taken >= 1
    /\ manifest = StaleManifest

\* a line that splits into exactly two fields once trimmed
TwoFields(line) == Len(Split(TrimMatches(line))) = 2

\* the key and the digest text of a two-field line
KeyOf(line) == PathPush(FolderPath, Split(TrimMatches(line))[1])

TokenOf(line) == Split(TrimMatches(line))[2]

\* C14: a line of the manifest that does not split into exactly two fields
\* is skipped without error: read_hash_file returns what it returns for the
\* two-field lines alone, a mapping of exactly their keys, and the check run
\* creates units for those keys only and, no unit failing, ends 0 with every
\* outcome Success.  A check run does not write the manifest, so what the
\* decoder makes of its lines is stated where the run starts.
C14_MalformedSkipped ==
    mode = "check" /\ manifest.exists =>
       LET r == read_hash_file(manifest.lines)
       IN  /\ main = "start" =>
                 LET good == SelectSeq(manifest.lines, TwoFields)
                 IN  /\ r = read_hash_file(good)
                     /\ (\A i \in 1..Len(good) : FromStrRadix16(TokenOf(good[i])) >= 0) => r.ok
                     /\ r.ok =>
                           /\ DOMAIN r.map = {KeyOf(good[i]) : i \in 1..Len(good)}
                           /\ \A i \in 1..Len(good) :
                                 (\A j \in (i + 1)..Len(good) : KeyOf(good[j]) # KeyOf(good[i]))
                                    => r.map[KeyOf(good[i])] = FromStrRadix16(TokenOf(good[i]))
           /\ main # "start" /\ r.ok =>
                 /\ hash_map = r.map
                 /\ DOMAIN units \subseteq DOMAIN hash_map
                 /\ main \in {"await", "returned"} => DOMAIN units = DOMAIN hash_map
                 /\ status # Running /\ Exited = {} =>
                       /\ status = Ended(0)
                       /\ \A u \in UnitIds : units[u].out = <<"Success">> /\ units[u].pc = "done"

\* C14, witness: a check run over a manifest whose first line has three
\* fields or one and whose second is valid, ended 0 with its one unit Success
C14_Witness ==
    /\ mode = "check"
    /\ run = 1
    /\ status = Ended(0)
    /\ Len(manifest.lines) = 2
    /\ ~TwoFields(manifest.lines[1])
    /\ manifest.lines[1] # <<>>
    /\ TwoFields(manifest.lines[2])
    /\ DOMAIN units = {KeyOf(manifest.lines[2])}
    /\ \A u \in UnitIds : units[u].out = <<"Success">> /\ units[u].pc = "done"

\* the units whose compute_hash returned a digest
Hashed == {u \in UnitIds : units[u].res.kind = "ok"}

\* C15: compute_hash returns, for a file of bytes B, the digest of B fed to
\* the hasher in one piece, however the reads split B into chunks of at most
\* the buffer's length and whatever the file's path; so two units over the
\* same bytes return the same digest, and a check run after a generate run
\* over the unchanged files finds every digest equal.
C15_Deterministic ==
    /\ \A u \in UnitIds :
          /\ units[u].pc = "open" /\ disk[u].kind = "ok"
                => /\ units[u].pos <= Len(disk[u].data)
                   /\ units[u].st = Xxh3Update(Xxh3New, SubSeq(disk[u].data, 1, units[u].pos))
          /\ u \in Hashed
                => /\ units[u].res.hash = Xxh3Digest128(Xxh3Update(Xxh3New, disk[u].data))
                   /\ units[u].res.hash = HashOf(disk[u].data)
                   /\ units[u].pos = Len(disk[u].data)
    /\ \A u, v \in Hashed : disk[u].data = disk[v].data => units[u].res.hash = units[v].res.hash
    /\ run = 2 => /\ Failed = {}
                  /\ \A u \in Hashed : units[u].res.hash = hash_map[u]

\* C15, witness: in a check run after generate, two units at two paths over
\* the same bytes, more than the buffer takes, one with every read as long
\* as could be and one with every read a single byte, returned the digest
\* the generate run recorded
C15_Witness ==
    /\ run = 2
    /\ \E u, v \in Hashed :
          /\ u # v
          /\ disk[u].data = disk[v].data
          /\ Len(disk[u].data) = MaxBytes
          /\ MaxBytes > BufLen
          /\ units[u].reads = Len(disk[u].data)
          /\ units[v].reads < units[u].reads
          /\ units[u].res.hash = units[v].res.hash
          /\ units[u].res.hash = hash_map[u]

\* C16: a unit is created for a file of the listing (generate) or a key of
\* the decoded manifest (check), one each, never two; while the process runs
\* the next unit can be created whatever the tokens and the channel hold, and
\* its creation takes neither; once the loop is left a unit exists for each,
\* of which at most as many as there are tokens are admitted; in generate
\* the consumer takes its first pair after the last unit was created.
C16_DispatchUnlimited ==
    /\ [](/\ handles = Cardinality(UnitIds)
          /\ Cardinality(Admitted) <= poolSize
          /\ mode = "generate" =>
                /\ UnitIds = {listing[i] : i \in 1..handles}
                /\ main \in {"collect", "await", "returned"} \/ taken > 0
                      => handles = Len(listing) /\ UnitIds = Range(listing)
                /\ main = "spawn" /\ status = Running /\ handles < Len(listing)
                      => ENABLED SpawnGenerate
          /\ mode = "check" =>
                /\ UnitIds = DOMAIN hash_map \ pending
                /\ main \in {"await", "returned"} /\ hash_map # EmptyMap
                      => UnitIds = DOMAIN hash_map /\ handles = Cardinality(DOMAIN hash_map)
                /\ main = "spawn" /\ status = Running /\ pending # {}
                      => ENABLED SpawnCheck)
    /\ [][run' = run /\ handles' # handles =>
            /\ handles' = handles + 1
            /\ permits' = permits
            /\ chan' = chan
            /\ \E p \in DOMAIN units' \ DOMAIN units :
                  /\ DOMAIN units' = DOMAIN units \cup {p}
                  /\ units'[p].pc = "wait"
                  /\ \A u \in UnitIds : units'[u] = units[u]]_vars

\* C16, witness: a generate run over more files than tokens, every unit
\* created and the last still waiting, every token taken, the channel full,
\* no pair yet taken
C16_Witness ==
    /\ mode = "generate"
    /\ main = "spawn"
    /\ Len(listing) > poolSize
    /\ handles = Len(listing)
    /\ Cardinality(Admitted) = poolSize
    /\ permits = 0
    /\ Len(chan) = ChanCap
    /\ units[listing[Len(listing)]].pc = "wait"
    /\ taken = 0

\* the places of file_paths whose path has no digest in hash_cache
Missing == {i \in 1..Len(file_paths) : file_paths[i] \notin DOMAIN hash_cache}

\* the lines of the first n files of file_paths
LinesUpTo(n) == [i \in 1..n |-> ManifestLine(file_paths[i], hash_cache[file_paths[i]])]

\* C17: export_all_hash, the manifest file taking every write: when the
\* i-th path of the list is the first without a digest it returns an error
\* and leaves a file of exactly the lines of the first i - 1 paths, in
\* order, whatever the file held before; when every path has a digest it
\* returns Ok and leaves a file of exactly one line per path.
C17_PartialExport ==
    /\ [][mode = "export" /\ main = "await" /\ stderr' # <<<<"io">>>> =>
            /\ main' = "returned"
            /\ Missing = {} => status' = Ended(0) /\ manifest' = FileOf(LinesUpTo(Len(file_paths)))
            /\ \A i \in Missing :
                  (\A j \in Missing : i <= j)
                     => status' = Ended(1) /\ manifest' = FileOf(LinesUpTo(i - 1))]_vars
    /\ [](mode = "export" /\ status = Ended(0) =>
            /\ Missing = {}
            /\ manifest.exists
            /\ Len(manifest.lines) = Len(file_paths))
    /\ [](mode = "export" /\ status = Ended(1) /\ stderr = <<<<"export">>>> =>
            /\ Missing # {}
            /\ manifest.exists
            /\ \A i \in Missing : Len(manifest.lines) < i
            /\ Len(manifest.lines) + 1 \in Missing
            /\ manifest # StaleManifest)

\* C17, witness: export_all_hash returned an error for a list whose last
\* path alone has no digest, and left the lines of the paths before it
C17_Witness ==
    /\ mode = "export"
    /\ status = Ended(1)
    /\ stderr = <<<<"export">>>>
    /\ Len(file_paths) = MaxFiles
    /\ Missing = {MaxFiles}
    /\ manifest = FileOf(LinesUpTo(MaxFiles - 1))

\* the last two-field line of the manifest with the key of line i
LastOf(i) ==
    CHOOSE j \in i..Len(manifest.lines) :
       /\ TwoFields(manifest.lines[j])
       /\ KeyOf(manifest.lines[j]) = KeyOf(manifest.lines[i])
       /\ \A k \in (j + 1)..Len(manifest.lines) :
             TwoFields(manifest.lines[k]) => KeyOf(manifest.lines[k]) # KeyOf(manifest.lines[i])

\* C18: when several valid lines of the manifest give the same path,
\* read_hash_file returns one entry for it, with the digest of the last of
\* them, and the check run creates one unit for the path, which compares
\* with that digest.  What the decoder makes of the lines is stated where
\* the run starts, the manifest being the same throughout.
C18_LastWins ==
    mode = "check" /\ manifest.exists =>
       LET r == read_hash_file(manifest.lines)
       IN  r.ok =>
              /\ main = "start" =>
                    LET two == {i \in 1..Len(manifest.lines) : TwoFields(manifest.lines[i])}
                    IN  /\ \A i \in two :
                              /\ KeyOf(manifest.lines[i]) \in DOMAIN r.map
                              /\ r.map[KeyOf(manifest.lines[i])]
                                    = FromStrRadix16(TokenOf(manifest.lines[LastOf(i)]))
                        /\ Cardinality(DOMAIN r.map)
                              = Cardinality({KeyOf(manifest.lines[i]) : i \in two})
              /\ main # "start" =>
                    /\ hash_map = r.map
                    /\ handles = Cardinality(UnitIds)
                    /\ UnitIds \subseteq DOMAIN hash_map
                    /\ \A u \in UnitIds : units[u].hash = hash_map[u]
                    /\ main \in {"await", "returned"} => UnitIds = DOMAIN hash_map

\* C18, witness: a check run over a manifest of two lines for one path, the
\* first with another digest than the second, ended 0 with one unit, whose
\* outcome against the second digest is Success
C18_Witness ==
    /\ mode = "check"
    /\ run = 1
    /\ status = Ended(0)
    /\ Len(manifest.lines) = 2
    /\ TwoFields(manifest.lines[1]) /\ TwoFields(manifest.lines[2])
    /\ KeyOf(manifest.lines[1]) = KeyOf(manifest.lines[2])
    /\ FromStrRadix16(TokenOf(manifest.lines[1])) # FromStrRadix16(TokenOf(manifest.lines[2]))
    /\ handles = 1
    /\ UnitIds = {KeyOf(manifest.lines[2])}
    /\ \A u \in UnitIds :
          /\ units[u].hash = FromStrRadix16(TokenOf(manifest.lines[2]))
          /\ units[u].out = <<"Success">>

\* C19: when the generate flow comes to export_all_hash, hash_cache has the
\* digest of every path of the discovery list, so export_all_hash finds no
\* digest missing, and, the manifest file taking every write, the run ends 0
\* with a manifest of exactly N lines.
C19_NoDigestMissing ==
    /\ [](mode = "generate" /\ main = "await" =>
            /\ file_paths = listing
            /\ DOMAIN hash_cache = Range(file_paths)
            /\ \A p \in Range(file_paths) : hash_cache[p] = units[p].res.hash
            /\ export_all_hash(hash_cache, file_paths).ok
            /\ Len(export_all_hash(hash_cache, file_paths).lines) = Len(listing))
    /\ [][mode = "generate" /\ main = "await" /\ main' = "returned" =>
            \/ /\ status' = Ended(0)
               /\ stderr' = stderr
               /\ manifest'.exists
               /\ Len(manifest'.lines) = Len(listing)
            \/ /\ status' = Ended(1)
               /\ manifest' = manifest \/ Len(manifest'.lines) < Len(listing)]_vars

\* C19, witness: a generate run about to export, every unit finished, the
\* cache holding a digest for each of the files, the pair of the last file
\* taken first
C19_Witness ==
    /\ mode = "generate"
    /\ main = "await"
    /\ status = Running
    /\ AllJoined
    /\ Len(listing) = MaxFiles
    /\ first_recv = listing[Len(listing)]
    /\ DOMAIN hash_cache = Range(listing)

\* the units in tx.send
Sending == {u \in UnitIds : units[u].pc = "sending"}

\* the units that have computed a digest and not yet put it in the channel
Holding == {u \in UnitIds : units[u].pc \in {"hashed", "sending"} /\ units[u].res.kind = "ok"}

\* C20: in generate a unit in its send holds its token; the digests computed
\* and not yet taken by the consumer, in units' hands or in the channel, are
\* at most the channel's capacity plus the tokens; and while as many units
\* as there are tokens are in a send on a full channel, no unit gets a token
\* or opens a file before the consumer takes a pair.
C20_TokenHeldInSend ==
    /\ [](mode = "generate" =>
            /\ permits + Cardinality(Sending) <= poolSize
            /\ Cardinality(Holding) <= poolSize
            /\ Cardinality(Holding) + Len(chan) <= ChanCap + poolSize
            /\ Cardinality(Sending) = poolSize /\ Len(chan) = ChanCap =>
                  /\ permits = 0
                  /\ \A u \in UnitIds : ~ENABLED Acquire(u) /\ ~ENABLED Open(u) /\ ~ENABLED Send(u))
    /\ [][mode = "generate" /\ mode' = "generate" =>
            /\ \A u \in Sending : units'[u].pc = "sent" => permits' = permits
            /\ Cardinality(Sending) = poolSize /\ Len(chan) = ChanCap /\ taken' = taken
                  => /\ \A u \in UnitIds : units'[u] = units[u]
                     /\ chan' = chan
                     /\ permits' = permits]_vars

\* C20, witness: every token with a unit in its send, the channel full, so
\* capacity plus tokens digests not yet taken, and a unit waiting for a token
C20_Witness ==
    /\ mode = "generate"
    /\ status = Running
    /\ Cardinality(Sending) = poolSize
    /\ Len(chan) = ChanCap
    /\ Cardinality(Holding) + Len(chan) = ChanCap + poolSize
    /\ \E u \in UnitIds : units[u].pc = "wait"

=============================================================================
